---- MODULE Spec2Model ----
(***************************************************************************)
(* A model of lsblk (src/src/main.rs): the major:minor codec, the          *)
(* attribute readers, the /proc/mounts and /proc/swaps loaders, the udev   *)
(* record parser and the scan of /sys/block that main performs.            *)
(*                                                                         *)
(* Texts are sequences of one-character strings, except where a comment    *)
(* says that a text is a sequence of tokens.  A Rust panic (an unwrap of   *)
(* None or Err) is the outcome Panic: it ends the run.                      *)
(***************************************************************************)
EXTENDS Integers, Sequences, FiniteSets, TLC

VARIABLES
    pc,         \* position of the run
    input,      \* MajorMinor::from_str: the text s
    parsed,     \* MajorMinor::from_str: its result
    formatted,  \* MajorMinor::to_string of the parsed value
    dbpath,     \* MajorMinor::udev_path of the parsed value
    attr,       \* parse_block_file: the filename read
    file,       \* parse_block_file: the state of the file path/filename
    build,      \* the build profile of the binary (overflow checks on or off)
    value,      \* parse_block_file / parse_sector_file: the result
    data,       \* parse_uevent_metadata: the udev record, a sequence of tokens
    lineno,     \* parse_uevent_metadata: the number of lines consumed
    id_type,    \* parse_uevent_metadata: the three locals of the loop
    id_fs_type,
    id_fs_uuid,
    metadata,   \* parse_uevent_metadata: the result
    proc_mounts,  \* the state of the file /proc/mounts
    proc_swaps,   \* the state of the file /proc/swaps
    part_name,    \* read_partition_mountpoint: the name
    mounts_tbl,   \* the result of parse_proc_mounts
    swaps_set,    \* the result of parse_proc_swaps
    mountpoint,   \* the result of read_partition_mountpoint
    blocks,       \* main: the Blocks collected so far
    disk,         \* read_block: the fields of the Block whose partitions are read
    ps,           \* read_partitions: the Vec ps
    listed,       \* what the directory enumerations have yielded so far
    yielded,      \* the number of directory entries yielded so far
    mount_reads,  \* the number of times /proc/mounts was opened
    swap_reads    \* the number of times /proc/swaps was opened

mmVars == <<input, parsed, formatted, dbpath>>
attrVars == <<attr, file, build, value>>
ueVars == <<data, lineno, id_type, id_fs_type, id_fs_uuid, metadata>>
procVars == <<proc_mounts, proc_swaps>>
mtVars == <<part_name, mounts_tbl, swaps_set, mountpoint>>
scanVars == <<blocks, disk, ps, listed, yielded, mount_reads, swap_reads>>
vars == <<pc, mmVars, attrVars, ueVars, procVars, mtVars, scanVars>>
exceptMajMin == <<attrVars, ueVars, procVars, mtVars, scanVars>>
exceptAttr == <<mmVars, ueVars, procVars, mtVars, scanVars>>
exceptUevent == <<mmVars, attrVars, procVars, mtVars, scanVars>>
exceptMounts == <<mmVars, attrVars, ueVars, scanVars>>
exceptScan == <<mmVars, attrVars, ueVars, mtVars>>

Idle == [tag |-> "Idle"]
Panic == [tag |-> "Panic"]
None == [tag |-> "None"]
Some(v) == [tag |-> "Some", val |-> v]
Err(msg) == [tag |-> "Err", msg |-> msg]
Ok(v) == [tag |-> "Ok", val |-> v]

(***************************************************************************)
(* Characters and decimal numbers.                                         *)
(***************************************************************************)
Digits == {"0", "1", "2", "3", "4", "5", "6", "7", "8", "9"}
DigitChar == <<"0", "1", "2", "3", "4", "5", "6", "7", "8", "9">>
DigitVal(c) == CHOOSE d \in 0..9 : DigitChar[d + 1] = c

AllDigits(t) == \A i \in 1..Len(t) : t[i] \in Digits

U8Max == 255

\* str::parse::<u8> of a text of digits: Ok(n), or Err when the text is empty,
\* holds a character that is no digit, or the value exceeds u8::MAX.
RECURSIVE ParseU8Acc(_, _)
ParseU8Acc(t, acc) ==
    IF t = <<>> THEN Ok(acc)
    ELSE IF Head(t) \notin Digits THEN Err("InvalidDigit")
    ELSE LET n == acc * 10 + DigitVal(Head(t))
         IN  IF n > U8Max THEN Err("PosOverflow") ELSE ParseU8Acc(Tail(t), n)

ParseU8(t) == IF t = <<>> THEN Err("Empty") ELSE ParseU8Acc(t, 0)

\* u8::to_string: the decimal digits of n, no padding.
U8ToString(n) ==
    IF n < 10 THEN <<DigitChar[n + 1]>>
    ELSE IF n < 100 THEN <<DigitChar[(n \div 10) + 1], DigitChar[(n % 10) + 1]>>
    ELSE <<DigitChar[(n \div 100) + 1], DigitChar[((n \div 10) % 10) + 1], DigitChar[(n % 10) + 1]>>

(***************************************************************************)
(* MajorMinor                                                              *)
(***************************************************************************)
MajorMinor(major, minor) == [major |-> major, minor |-> minor]

\* Regex ^([0-9]+):([0-9]+)$ : the captures, or None.
MajMinCaptures(t) ==
    IF \E i \in 1..Len(t) : t[i] = ":"
    THEN LET i == CHOOSE k \in 1..Len(t) : t[k] = ":" /\ \A j \in 1..(k - 1) : t[j] # ":"
             g1 == SubSeq(t, 1, i - 1)
             g2 == SubSeq(t, i + 1, Len(t))
         IN  IF g1 # <<>> /\ g2 # <<>> /\ AllDigits(g1) /\ AllDigits(g2)
             THEN Some(<<g1, g2>>)
             ELSE None
    ELSE None

\* MajorMinor::from_str: Ok(MajorMinor), Err(InvalidData) when the regex does
\* not match, and a panic when a captured component does not parse as u8.
from_str(t) ==
    LET caps == MajMinCaptures(t)
    IN  IF caps.tag = "None" THEN Err("MajorMinor::from_str")
        ELSE LET major == ParseU8(caps.val[1])
                 minor == ParseU8(caps.val[2])
             IN  IF major.tag # "Ok" \/ minor.tag # "Ok" THEN Panic
                 ELSE Ok(MajorMinor(major.val, minor.val))

to_string_swapped(mm) == U8ToString(mm.minor) \o <<":">> \o U8ToString(mm.major)

to_string(mm) == U8ToString(mm.major) \o <<":">> \o U8ToString(mm.minor)

UdevRoot == <<"/run/udev/data">>

\* PathBuf::from("/run/udev/data").push("b" + to_string): the pushed name is
\* relative, so it is appended after a separator.
udev_path(mm) == UdevRoot \o <<"/">> \o (<<"b">> \o to_string(mm))

(***************************************************************************)
(* Specification of the codec: from_str on a text, then to_string and      *)
(* udev_path on the value.                                                 *)
(***************************************************************************)
MaxTextLen == 5
MajMinAlphabet == {"0", "2", "5", "6", ":", "x"}

RECURSIVE TextsUpTo(_, _)
TextsUpTo(alphabet, n) ==
    IF n = 0 THEN {<<>>}
    ELSE LET shorter == TextsUpTo(alphabet, n - 1)
         IN  shorter \cup {Append(t, c) : t \in {u \in shorter : Len(u) = n - 1}, c \in alphabet}

MajMinIdle == input = Idle /\ parsed = Idle /\ formatted = Idle /\ dbpath = Idle
AttrIdle == attr = Idle /\ file = Idle /\ build = Idle /\ value = Idle
UeventIdle ==
    /\ data = Idle /\ lineno = 0 /\ metadata = Idle
    /\ id_type = Idle /\ id_fs_type = Idle /\ id_fs_uuid = Idle
ProcIdle == proc_mounts = Idle /\ proc_swaps = Idle
MountsIdle == part_name = Idle /\ mounts_tbl = Idle /\ swaps_set = Idle /\ mountpoint = Idle
ScanIdle ==
    /\ blocks = <<>> /\ disk = Idle /\ ps = <<>> /\ listed = <<>>
    /\ yielded = 0 /\ mount_reads = 0 /\ swap_reads = 0

InitMajMin ==
    /\ pc = "from_str"
    /\ AttrIdle
    /\ UeventIdle
    /\ ProcIdle
    /\ MountsIdle
    /\ input \in TextsUpTo(MajMinAlphabet, MaxTextLen)
    /\ parsed = Idle
    /\ formatted = Idle
    /\ dbpath = Idle
    /\ ScanIdle

DoFromStr ==
    /\ pc = "from_str"
    /\ parsed' = from_str(input)
    /\ pc' = IF parsed' = Panic THEN "panicked"
             ELSE IF parsed'.tag = "Err" THEN "failed" ELSE "to_string"
    /\ UNCHANGED <<input, formatted, dbpath>>
    /\ UNCHANGED exceptMajMin

DoToString ==
    /\ pc = "to_string"
    /\ formatted' = to_string(parsed.val)
    /\ pc' = "udev_path"
    /\ UNCHANGED <<input, parsed, dbpath>>
    /\ UNCHANGED exceptMajMin

DoUdevPath ==
    /\ pc = "udev_path"
    /\ dbpath' = udev_path(parsed.val)
    /\ pc' = "done"
    /\ UNCHANGED <<input, parsed, formatted>>
    /\ UNCHANGED exceptMajMin

NextMajMin == DoFromStr \/ DoToString \/ DoUdevPath

SpecMajMin == InitMajMin /\ [][NextMajMin]_vars

\* The text is <major>:<minor>, both decimal without leading zeros.
NoLeadingZero(t) == t # <<>> /\ AllDigits(t) /\ (Len(t) > 1 => t[1] # "0")

RECURSIVE DecimalValue(_)
DecimalValue(t) == IF t = <<>> THEN 0 ELSE DecimalValue(SubSeq(t, 1, Len(t) - 1)) * 10 + DigitVal(t[Len(t)])

MatchesMajMin(t) ==
    \E i \in 2..(Len(t) - 1) :
        /\ t[i] = ":"
        /\ AllDigits(SubSeq(t, 1, i - 1))
        /\ AllDigits(SubSeq(t, i + 1, Len(t)))

InRange(t) ==
    \E i \in 2..(Len(t) - 1) :
        /\ t[i] = ":"
        /\ DecimalValue(SubSeq(t, 1, i - 1)) <= U8Max
        /\ DecimalValue(SubSeq(t, i + 1, Len(t))) <= U8Max

Canonical(t) ==
    \E i \in 2..(Len(t) - 1) :
        /\ t[i] = ":"
        /\ NoLeadingZero(SubSeq(t, 1, i - 1))
        /\ NoLeadingZero(SubSeq(t, i + 1, Len(t)))
        /\ DecimalValue(SubSeq(t, 1, i - 1)) <= U8Max
        /\ DecimalValue(SubSeq(t, i + 1, Len(t))) <= U8Max

\* C1: from_str returns a format error as a value, never a panic, for every
\* text that does not match ^\d+:\d+$ and for every matching text with a
\* component above 255; it returns a MajorMinor only when both are in 0..255.
C1_FromStrNeverPanics ==
    pc # "from_str" =>
        /\ parsed # Panic
        /\ (parsed.tag = "Ok") <=> (MatchesMajMin(input) /\ InRange(input))

\* C8: for a canonical text <major>:<minor> (0..255, no leading zeros),
\* to_string(from_str(text)) is the text, and udev_path is the database root
\* joined with "b" followed by the text.
C8_RoundTrip ==
    Canonical(input) =>
        /\ pc # "from_str" => parsed.tag = "Ok"
        /\ pc \in {"udev_path", "done"} => formatted = input
        /\ pc = "done" => dbpath = <<"/run/udev/data", "/", "b">> \o input

C8_Witness ==
    /\ pc = "done"
    /\ Canonical(input)
    /\ Len(input) = 5
    /\ formatted = input

(***************************************************************************)
(* Unsigned 64-bit integers: four 16-bit limbs, least significant first.   *)
(***************************************************************************)
LimbBase == 2 ^ 16
U64Zero == <<0, 0, 0, 0>>

\* x * k + a for a small k and a: the low 64 bits and the carry out of them.
MulAdd(x, k, a) ==
    LET c1 == x[1] * k + a
        c2 == x[2] * k + (c1 \div LimbBase)
        c3 == x[3] * k + (c2 \div LimbBase)
        c4 == x[4] * k + (c3 \div LimbBase)
    IN  [val |-> <<c1 % LimbBase, c2 % LimbBase, c3 % LimbBase, c4 % LimbBase>>,
         carry |-> c4 \div LimbBase]

\* str::parse::<u64>: checked multiply by 10 and checked add of each digit.
RECURSIVE ParseU64Acc(_, _)
ParseU64Acc(t, acc) ==
    IF t = <<>> THEN Ok(acc)
    ELSE IF Head(t) \notin Digits THEN Err("InvalidDigit")
    ELSE LET r == MulAdd(acc, 10, DigitVal(Head(t)))
         IN  IF r.carry # 0 THEN Err("PosOverflow") ELSE ParseU64Acc(Tail(t), r.val)

ParseU64(t) == IF t = <<>> THEN Err("Empty") ELSE ParseU64Acc(t, U64Zero)

(***************************************************************************)
(* parse_block_file and parse_sector_file                                  *)
(***************************************************************************)
Whitespace == {" ", "\t", "\n"}

\* str::trim: leading and trailing whitespace removed.
RECURSIVE TrimStart(_)
TrimStart(t) == IF t # <<>> /\ Head(t) \in Whitespace THEN TrimStart(Tail(t)) ELSE t

RECURSIVE TrimEnd(_)
TrimEnd(t) ==
    IF t # <<>> /\ t[Len(t)] \in Whitespace THEN TrimEnd(SubSeq(t, 1, Len(t) - 1)) ELSE t

Trim(t) == TrimEnd(TrimStart(t))

\* The state of one file: it does not open, it opens and its read fails, or
\* it opens and read_to_string gives its contents.
NoFile == [state |-> "absent"]
BadFile == [state |-> "unreadable"]
FileOf(t) == [state |-> "ok", contents |-> t]

\* T::from_str for the two types the attributes are read as.
FromStrAs(type, t) == IF type = "MajorMinor" THEN from_str(t) ELSE ParseU64(t)

\* parse_block_file::<T>: None when the open fails (none!), a panic when the
\* read fails (unwrap), else T::from_str(contents.trim()).ok().
parse_block_file(type, f) ==
    IF f.state = "absent" THEN None
    ELSE IF f.state = "unreadable" THEN Panic
    ELSE LET r == FromStrAs(type, Trim(f.contents))
         IN  IF r = Panic THEN Panic
             ELSE IF r.tag = "Ok" THEN Some(r.val) ELSE None

SectorSize == 512

\* parse_sector_file: parse_block_file::<u64>(..).map(|x| x*512).  The product
\* is a u64 multiplication: when it overflows, a build with overflow checks
\* panics and a build without them keeps the low 64 bits.
parse_sector_file(f, profile) ==
    LET x == parse_block_file("u64", f)
    IN  IF x = Panic \/ x.tag = "None" THEN x
        ELSE LET r == MulAdd(x.val, SectorSize, 0)
             IN  IF r.carry # 0 /\ profile = "debug" THEN Panic ELSE Some(r.val)

AttrType(a) == IF a = "dev" THEN "MajorMinor" ELSE "u64"

\* Decimal digits as characters.
D(ds) == [i \in 1..Len(ds) |-> DigitChar[ds[i] + 1]]

AttrTexts ==
    { <<>>, <<"\n">>, <<"x", "\n">>, <<"-", "1", "\n">>,
      <<"8", ":", "1", "\n">>, <<"2", "5", "9", ":", "0", "\n">>,
      <<"8", ":", "2", "5", "6", "\n">>, <<"8", ":", "\n">>,
      <<"0", "\n">>, <<"1", "\n">>, <<" ", "1", "2", "\n">>,
      D(<<8, 3, 8, 8, 6, 0, 8>>) \o <<"\n">>,
      D(<<3, 6, 0, 2, 8, 7, 9, 7, 0, 1, 8, 9, 6, 3, 9, 6, 7>>) \o <<"\n">>,
      D(<<3, 6, 0, 2, 8, 7, 9, 7, 0, 1, 8, 9, 6, 3, 9, 6, 8>>) \o <<"\n">>,
      D(<<1, 8, 4, 4, 6, 7, 4, 4, 0, 7, 3, 7, 0, 9, 5, 5, 1, 6, 1, 5>>) \o <<"\n">>,
      D(<<1, 8, 4, 4, 6, 7, 4, 4, 0, 7, 3, 7, 0, 9, 5, 5, 1, 6, 1, 6>>) \o <<"\n">> }

AttrFiles == {NoFile, BadFile} \cup {FileOf(t) : t \in AttrTexts}
AttrNames == {"dev", "removable", "size", "ro"}
Builds == {"debug", "release"}

InitAttr ==
    /\ pc = "read_attr"
    /\ attr \in AttrNames
    /\ file \in AttrFiles
    /\ build \in Builds
    /\ value = Idle
    /\ MajMinIdle
    /\ UeventIdle
    /\ ProcIdle
    /\ MountsIdle
    /\ ScanIdle

DoParseBlockFile ==
    /\ pc = "read_attr"
    /\ attr # "size"
    /\ value' = parse_block_file(AttrType(attr), file)
    /\ pc' = IF value' = Panic THEN "panicked" ELSE "attr_done"
    /\ UNCHANGED <<attr, file, build>>
    /\ UNCHANGED exceptAttr

DoParseSectorFile ==
    /\ pc = "read_attr"
    /\ attr = "size"
    /\ value' = parse_sector_file(file, build)
    /\ pc' = IF value' = Panic THEN "panicked" ELSE "attr_done"
    /\ UNCHANGED <<attr, file, build>>
    /\ UNCHANGED exceptAttr

NextAttr == DoParseBlockFile \/ DoParseSectorFile

SpecAttr == InitAttr /\ [][NextAttr]_vars

\* C2: every attribute read ends in a typed value or in absent and never ends
\* the run: a failed open, a failed read after a successful open and a failed
\* parse each yield absent.
C2_AttributeReadNeverPanics ==
    pc # "read_attr" =>
        /\ value # Panic
        /\ file.state \in {"absent", "unreadable"} => value = None

\* The exact product of a u64 and 512, in five limbs.
Times512Exact(x) == LET r == MulAdd(x, SectorSize, 0) IN r.val \o <<r.carry>>

\* C6: for every sector count N the size attribute holds as a u64, also when
\* N*512 needs more than 64 bits, the size reader yields N*512, neither a
\* wrapped value nor a panic; an absent or unparsable attribute yields absent.
C6_SizeIsSectorsTimes512 ==
    (pc # "read_attr" /\ attr = "size" /\ file.state # "unreadable") =>
        IF file.state = "ok" /\ ParseU64(Trim(file.contents)).tag = "Ok"
        THEN /\ value # Panic
             /\ value.tag = "Some"
             /\ value.val \o <<0>> = Times512Exact(ParseU64(Trim(file.contents)).val)
        ELSE value = None

(***************************************************************************)
(* The udev record: parse_line and parse_uevent_metadata.  A record is a   *)
(* sequence of tokens: "\n" ends a line, "E:" and "=" are the marks the    *)
(* pattern looks for and are tokens of their own, every other token is a   *)
(* run of characters without '=' and newline that does not begin with E:.  *)
(***************************************************************************)
RECURSIVE Concat(_)
Concat(ts) == IF ts = <<>> THEN "" ELSE Head(ts) \o Concat(Tail(ts))

\* str::lines: the pieces between "\n", without a last empty piece.
RECURSIVE SplitLines(_, _)
SplitLines(ts, cur) ==
    IF ts = <<>> THEN (IF cur = <<>> THEN <<>> ELSE <<cur>>)
    ELSE IF Head(ts) = "\n" THEN <<cur>> \o SplitLines(Tail(ts), <<>>)
    ELSE SplitLines(Tail(ts), Append(cur, Head(ts)))

lines(ts) == SplitLines(ts, <<>>)

KeyValue(key, val) == [key |-> key, value |-> val]

\* Regex ^E:([^=]+)=([^=]+)$ : the key and the value, or None.
parse_line(line) ==
    IF line # <<>> /\ Head(line) = "E:" /\ \E i \in 2..Len(line) : line[i] = "="
    THEN LET i == CHOOSE k \in 2..Len(line) :
                      line[k] = "=" /\ \A j \in 2..(k - 1) : line[j] # "="
             k == SubSeq(line, 2, i - 1)
             v == SubSeq(line, i + 1, Len(line))
         IN  IF k # <<>> /\ v # <<>> /\ \A j \in 1..Len(v) : v[j] # "="
             THEN Some(KeyValue(Concat(k), Concat(v)))
             ELSE None
    ELSE None

\* The body of the loop of parse_uevent_metadata: the three locals after the
\* match on one parsed line.
UeventMatchFirstWins(acc, kv) ==
    IF kv.tag = "None" THEN acc
    ELSE IF kv.val.key = "ID_TYPE" /\ acc.id_type = None
         THEN [acc EXCEPT !.id_type = Some(kv.val.value)]
    ELSE IF kv.val.key = "ID_FS_TYPE" /\ acc.id_fs_type = None
         THEN [acc EXCEPT !.id_fs_type = Some(kv.val.value)]
    ELSE IF kv.val.key = "ID_FS_UUID" /\ acc.id_fs_uuid = None
         THEN [acc EXCEPT !.id_fs_uuid = Some(kv.val.value)]
    ELSE acc

UeventMatch(acc, kv) ==
    IF kv.tag = "None" THEN acc
    ELSE IF kv.val.key = "ID_TYPE" THEN [acc EXCEPT !.id_type = Some(kv.val.value)]
    ELSE IF kv.val.key = "ID_FS_TYPE" THEN [acc EXCEPT !.id_fs_type = Some(kv.val.value)]
    ELSE IF kv.val.key = "ID_FS_UUID" THEN [acc EXCEPT !.id_fs_uuid = Some(kv.val.value)]
    ELSE acc

BlockMetadata(t, fs_type, fs_uuid) ==
    [id_type |-> t, id_fs_type |-> fs_type, id_fs_uuid |-> fs_uuid]

\* The final match of parse_uevent_metadata.
UeventResult(acc) ==
    IF acc.id_type.tag = "Some"
    THEN Some(BlockMetadata(acc.id_type.val, acc.id_fs_type, acc.id_fs_uuid))
    ELSE None

RECURSIVE UeventFold(_, _)
UeventFold(ls, acc) ==
    IF ls = <<>> THEN acc ELSE UeventFold(Tail(ls), UeventMatch(acc, parse_line(Head(ls))))

UeventStart == [id_type |-> None, id_fs_type |-> None, id_fs_uuid |-> None]

parse_uevent_metadata(ts) == UeventResult(UeventFold(lines(ts), UeventStart))

(***************************************************************************)
(* Specification of parse_uevent_metadata, one line of the record a step.  *)
(***************************************************************************)
MaxLines == 3

UeventLines ==
    { <<"E:", k, "=", v>> : k \in {"ID_TYPE", "ID_FS_TYPE"}, v \in {"disk", "ext4"} }
    \cup { <<"E:", "ID_FS_UUID", "=", "eca1e7f9">>,
           <<>>, <<"ID_TYPE", "=", "disk">>, <<"E:", "ID_TYPE">>,
           <<"E:", "ID_TYPE", "=">>, <<"E:", "ID_TYPE", "=", "cd", "=", "1">>,
           <<"E:", "ID_BUS", "=", "ata">>, <<"E:", "ID_", "TYPE", "=", "one", " two">> }

RECURSIVE JoinLines(_)
JoinLines(ls) ==
    IF ls = <<>> THEN <<>>
    ELSE IF Len(ls) = 1 THEN Head(ls)
    ELSE Head(ls) \o <<"\n">> \o JoinLines(Tail(ls))

RECURSIVE SeqsUpTo(_, _)
SeqsUpTo(S, n) ==
    IF n = 0 THEN {<<>>}
    ELSE LET shorter == SeqsUpTo(S, n - 1)
         IN  shorter \cup {Append(q, x) : q \in {u \in shorter : Len(u) = n - 1}, x \in S}

InitUevent ==
    /\ pc = "uevent_loop"
    /\ \E ls \in SeqsUpTo(UeventLines, MaxLines) :
           data \in {JoinLines(ls), JoinLines(ls) \o <<"\n">>}
    /\ lineno = 0
    /\ id_type = None
    /\ id_fs_type = None
    /\ id_fs_uuid = None
    /\ metadata = Idle
    /\ MajMinIdle
    /\ AttrIdle
    /\ ProcIdle
    /\ MountsIdle
    /\ ScanIdle

UeventLocals == [id_type |-> id_type, id_fs_type |-> id_fs_type, id_fs_uuid |-> id_fs_uuid]

UeventLine ==
    /\ pc = "uevent_loop"
    /\ lineno < Len(lines(data))
    /\ LET acc == UeventMatch(UeventLocals, parse_line(lines(data)[lineno + 1]))
       IN  /\ id_type' = acc.id_type
           /\ id_fs_type' = acc.id_fs_type
           /\ id_fs_uuid' = acc.id_fs_uuid
    /\ lineno' = lineno + 1
    /\ UNCHANGED <<pc, data, metadata>>
    /\ UNCHANGED exceptUevent

UeventReturn ==
    /\ pc = "uevent_loop"
    /\ lineno = Len(lines(data))
    /\ metadata' = UeventResult(UeventLocals)
    /\ pc' = "uevent_done"
    /\ UNCHANGED <<data, lineno, id_type, id_fs_type, id_fs_uuid>>
    /\ UNCHANGED exceptUevent

NextUevent == UeventLine \/ UeventReturn

SpecUevent == InitUevent /\ [][NextUevent]_vars

\* A line of the form E:<key>=<value>, the value without '='.
WellFormedFor(line, key) ==
    /\ Len(line) >= 4
    /\ line[1] = "E:"
    /\ Cardinality({i \in 1..Len(line) : line[i] = "="}) = 1
    /\ \E i \in 3..(Len(line) - 1) :
           line[i] = "=" /\ Concat(SubSeq(line, 2, i - 1)) = key

ValueOf(line) ==
    LET i == CHOOSE k \in 1..Len(line) : line[k] = "="
    IN  Concat(SubSeq(line, i + 1, Len(line)))

\* The value of the last well-formed line for the key, if there is one.
LastFor(ls, key) ==
    LET at == {i \in 1..Len(ls) : WellFormedFor(ls[i], key)}
    IN  IF at = {} THEN None
        ELSE Some(ValueOf(ls[CHOOSE i \in at : \A j \in at : j <= i]))

\* C4: parse_uevent_metadata returns absent when no line is a well-formed
\* E:ID_TYPE=<value>, whatever other lines are present; otherwise a record in
\* which id_type, id_fs_type and id_fs_uuid hold the value of the last
\* well-formed line for their key (absent for the two optional ones if there is
\* none); no other line changes the result.
C4_UeventLastWins ==
    pc = "uevent_done" =>
        LET ls == lines(data)
        IN  metadata =
                IF LastFor(ls, "ID_TYPE") = None THEN None
                ELSE Some([id_type |-> LastFor(ls, "ID_TYPE").val,
                           id_fs_type |-> LastFor(ls, "ID_FS_TYPE"),
                           id_fs_uuid |-> LastFor(ls, "ID_FS_UUID")])

C4_Witness ==
    /\ pc = "uevent_done"
    /\ Len(lines(data)) = 3
    /\ lines(data)[1] = <<"E:", "ID_TYPE", "=", "disk">>
    /\ lines(data)[2] = <<"E:", "ID_TYPE", "=", "cd", "=", "1">>
    /\ lines(data)[3] = <<"E:", "ID_TYPE", "=", "ext4">>
    /\ metadata = Some([id_type |-> "ext4", id_fs_type |-> None, id_fs_uuid |-> None])

(***************************************************************************)
(* /proc/mounts and /proc/swaps.  Their contents are sequences of tokens:  *)
(* "\n", " ", "\t" and "/" are tokens of their own, every other token is a *)
(* run of characters without whitespace and '/'.                           *)
(***************************************************************************)
FirstSpace(line, from) ==
    CHOOSE k \in from..Len(line) : line[k] = " " /\ \A j \in from..(k - 1) : line[j] # " "

HasSpace(line, from) == \E k \in from..Len(line) : line[k] = " "

\* Regex ^([^ ]+) ([^ ]+) .+$ : the two captures, or None.
parse_proc_mounts_line(line) ==
    IF ~HasSpace(line, 1) THEN None
    ELSE LET i == FirstSpace(line, 1)
         IN  IF i = 1 \/ ~HasSpace(line, i + 1) THEN None
             ELSE LET j == FirstSpace(line, i + 1)
                  IN  IF j = i + 1 \/ j = Len(line) THEN None
                      ELSE Some(<<Concat(SubSeq(line, 1, i - 1)),
                                  Concat(SubSeq(line, i + 1, j - 1))>>)

\* HashMap::insert: the value of an existing key is replaced.
MapInsertKeepFirst(m, k, v) ==
    [x \in DOMAIN m \cup {k} |-> IF x \in DOMAIN m THEN m[x] ELSE v]

MapInsert(m, k, v) == [x \in DOMAIN m \cup {k} |-> IF x = k THEN v ELSE m[x]]

EmptyMap == [x \in {} |-> ""]

\* contents.lines().filter_map(parse_proc_mounts_line).collect() into a HashMap.
RECURSIVE CollectMounts(_, _)
CollectMounts(ls, m) ==
    IF ls = <<>> THEN m
    ELSE LET kv == parse_proc_mounts_line(Head(ls))
         IN  CollectMounts(Tail(ls),
                           IF kv.tag = "Some" THEN MapInsert(m, kv.val[1], kv.val[2]) ELSE m)

\* parse_proc_mounts: None when the open or the read fails (none!).
parse_proc_mounts(f) ==
    IF f.state # "ok" THEN None ELSE Some(CollectMounts(lines(f.contents), EmptyMap))

\* Regex ^(/[^ ]+) +.+$ : the capture, or None.
parse_proc_swaps_line(line) ==
    IF ~HasSpace(line, 1) THEN None
    ELSE LET i == FirstSpace(line, 1)
         IN  IF i >= 3 /\ line[1] = "/" /\ i < Len(line)
             THEN Some(Concat(SubSeq(line, 1, i - 1)))
             ELSE None

\* contents.lines().filter_map(parse_proc_swaps_line).collect() into a HashSet.
CollectSwaps(ls) ==
    {parse_proc_swaps_line(ls[i]).val :
        i \in {k \in 1..Len(ls) : parse_proc_swaps_line(ls[k]).tag = "Some"}}

\* parse_proc_swaps: None when the open or the read fails (none!).
parse_proc_swaps(f) ==
    IF f.state # "ok" THEN None ELSE Some(CollectSwaps(lines(f.contents)))

\* read_partition_mountpoint: both files are parsed inside the call, and an
\* unwrap of None panics.
read_partition_mountpoint_swap_first(name, mf, sf) ==
    LET path == "/dev/" \o name
        m == parse_proc_mounts(mf)
        s == parse_proc_swaps(sf)
    IN  IF m.tag = "None" \/ s.tag = "None" THEN Panic
        ELSE IF path \in s.val THEN Some("[SWAP]")
        ELSE IF path \in DOMAIN m.val THEN Some(m.val[path])
        ELSE Some("")

read_partition_mountpoint(name, mf, sf) ==
    LET path == "/dev/" \o name
        m == parse_proc_mounts(mf)
    IN  IF m.tag = "None" THEN Panic
        ELSE IF path \in DOMAIN m.val THEN Some(m.val[path])
        ELSE LET s == parse_proc_swaps(sf)
             IN  IF s.tag = "None" THEN Panic
                 ELSE IF path \in s.val THEN Some("[SWAP]") ELSE Some("")

(***************************************************************************)
(* Specification of the two loaders and of the lookup.                     *)
(***************************************************************************)
MaxMountLines == 2

DevTokens == {<<"/", "dev", "/", "sda1">>, <<"/", "dev", "/", "sda2">>}
MountTokens == {<<"/">>, <<"/", "mnt">>}

MountLines ==
    { dev \o sep \o mp \o rest :
        dev \in DevTokens,
        sep \in {<<" ">>, <<"\t">>, <<" ", " ">>},
        mp \in MountTokens,
        rest \in {<<" ", "ext4", " ", "rw">>, <<" ", " ", "ext4">>, <<"\t", "ext4">>} }
    \cup {<<>>}

\* Lines as the kernel writes them: single spaces between the fields.
KernelMountLines ==
    {dev \o <<" ">> \o mp \o <<" ", "ext4", " ", "rw">> : dev \in DevTokens, mp \in MountTokens}

FileOfLines(ls) == FileOf(JoinLines(ls) \o <<"\n">>)

MountFiles ==
    {NoFile, BadFile} \cup {FileOfLines(ls) : ls \in SeqsUpTo(MountLines, MaxMountLines) \ {<<>>}}

KernelMountFiles ==
    {NoFile, BadFile} \cup {FileOfLines(ls) : ls \in SeqsUpTo(KernelMountLines, MaxMountLines)}

SwapHeader == <<"Filename", "\t", "Type">>

SwapFiles ==
    { NoFile,
      FileOfLines(<<SwapHeader>>),
      FileOfLines(<<SwapHeader, <<"/", "dev", "/", "sda1", " ", " ", "partition">> >>),
      FileOfLines(<<SwapHeader, <<"/", "dev", "/", "sda2", " ", "partition">>, <<"/", "swapfile">> >>) }

PartNames == {"sda1", "sda2", "sda3"}

InitMountTable ==
    /\ pc = "parse_proc_mounts"
    /\ proc_mounts \in MountFiles
    /\ proc_swaps = Idle
    /\ MountsIdle
    /\ MajMinIdle
    /\ AttrIdle
    /\ UeventIdle
    /\ ScanIdle

InitMountpoint ==
    /\ pc = "parse_proc_mounts"
    /\ proc_mounts \in KernelMountFiles
    /\ proc_swaps \in SwapFiles
    /\ part_name \in PartNames
    /\ mounts_tbl = Idle
    /\ swaps_set = Idle
    /\ mountpoint = Idle
    /\ MajMinIdle
    /\ AttrIdle
    /\ UeventIdle
    /\ ScanIdle

DoParseProcMounts ==
    /\ pc = "parse_proc_mounts"
    /\ mounts_tbl' = parse_proc_mounts(proc_mounts)
    /\ pc' = "parse_proc_swaps"
    /\ UNCHANGED <<procVars, part_name, swaps_set, mountpoint>>
    /\ UNCHANGED exceptMounts

DoParseProcSwaps ==
    /\ pc = "parse_proc_swaps"
    /\ swaps_set' = parse_proc_swaps(proc_swaps)
    /\ pc' = "read_partition_mountpoint"
    /\ UNCHANGED <<procVars, part_name, mounts_tbl, mountpoint>>
    /\ UNCHANGED exceptMounts

DoReadPartitionMountpoint ==
    /\ pc = "read_partition_mountpoint"
    /\ mountpoint' = read_partition_mountpoint(part_name, proc_mounts, proc_swaps)
    /\ pc' = IF mountpoint' = Panic THEN "panicked" ELSE "mountpoint_done"
    /\ UNCHANGED <<procVars, part_name, mounts_tbl, swaps_set>>
    /\ UNCHANGED exceptMounts

NextMountTable == DoParseProcMounts

SpecMountTable == InitMountTable /\ [][NextMountTable]_vars

NextMountpoint == DoParseProcMounts \/ DoParseProcSwaps \/ DoReadPartitionMountpoint

SpecMountpoint == InitMountpoint /\ [][NextMountpoint]_vars

\* The line is <device> <mountpoint> <rest>: two fields without a space, each
\* followed by exactly one space, and a rest that is not empty.
SingleSpaceFields(line, i, j) ==
    /\ 1 < i /\ i + 1 < j /\ j < Len(line)
    /\ line[i] = " " /\ line[j] = " "
    /\ \A k \in 1..(j - 1) : (k # i => line[k] # " ")

\* The line matches ^(\S+)\s+(\S+)\s+.+$ with the fields 1..a-1 and b..c-1.
WhitespaceFields(line, a, b, c) ==
    LET ws == {" ", "\t"}
    IN  /\ 1 < a /\ a < b /\ b < c /\ c < Len(line)
        /\ \A k \in 1..(a - 1) : line[k] \notin ws
        /\ \A k \in a..(b - 1) : line[k] \in ws
        /\ \A k \in b..(c - 1) : line[k] \notin ws
        /\ line[c] \in ws

\* The table the lines stand for when Pair gives the (device, mountpoint) of a
\* line that counts and <<>> for a line that does not: the mount point of the
\* last counting line of each device.
TableOf(ls, Pair(_)) ==
    LET at == {i \in 1..Len(ls) : Pair(ls[i]) # <<>>}
    IN  [d \in {Pair(ls[i])[1] : i \in at} |->
            Pair(ls[CHOOSE i \in at :
                        Pair(ls[i])[1] = d /\ \A j \in at : j > i => Pair(ls[j])[1] # d])[2]]

SingleSpacePair(line) ==
    IF \E i, j \in 1..Len(line) : SingleSpaceFields(line, i, j)
    THEN LET ij == CHOOSE ij \in (1..Len(line)) \X (1..Len(line)) :
                       SingleSpaceFields(line, ij[1], ij[2])
         IN  <<Concat(SubSeq(line, 1, ij[1] - 1)), Concat(SubSeq(line, ij[1] + 1, ij[2] - 1))>>
    ELSE <<>>

WhitespacePair(line) ==
    IF \E a, b, c \in 1..Len(line) : WhitespaceFields(line, a, b, c)
    THEN LET abc == CHOOSE abc \in (1..Len(line)) \X (1..Len(line)) \X (1..Len(line)) :
                        WhitespaceFields(line, abc[1], abc[2], abc[3])
         IN  <<Concat(SubSeq(line, 1, abc[1] - 1)), Concat(SubSeq(line, abc[2], abc[3] - 1))>>
    ELSE <<>>

\* C10 as stated: the mount table holds, for every line that matches
\* ^(\S+)\s+(\S+)\s+.+$ (fields separated by any run of spaces or tabs), the
\* pair of its first two fields, the last line of a device path winning.
C10_WhitespaceRuns ==
    (pc # "parse_proc_mounts" /\ proc_mounts.state = "ok") =>
        mounts_tbl = Some(TableOf(lines(proc_mounts.contents), WhitespacePair))

\* C10 amended: the mount table holds, for every line that matches
\* ^([^ ]+) ([^ ]+) .+$ (two fields, each followed by exactly one space
\* character, then a rest), the pair of the two fields, the last line of a
\* device path winning; every other line is skipped without error.
C10_SingleSpaces ==
    (pc # "parse_proc_mounts" /\ proc_mounts.state = "ok") =>
        mounts_tbl = Some(TableOf(lines(proc_mounts.contents), SingleSpacePair))

C10_Witness ==
    /\ pc = "parse_proc_swaps"
    /\ proc_mounts.state = "ok"
    /\ Len(lines(proc_mounts.contents)) = 2
    /\ SingleSpacePair(lines(proc_mounts.contents)[1]) = <<"/dev/sda1", "/">>
    /\ SingleSpacePair(lines(proc_mounts.contents)[2]) = <<"/dev/sda1", "/mnt">>
    /\ mounts_tbl = Some([d \in {"/dev/sda1"} |-> "/mnt"])

\* C5: the mountpoint of partition n is the mount table's entry for /dev/n if
\* there is one, also when the path is in the swap set; else "[SWAP]" if the
\* swap set holds the path; else the empty string.  "[SWAP]" is never the
\* result for a path the mount table holds.
C5_MountBeforeSwap ==
    pc = "mountpoint_done" =>
        LET path == "/dev/" \o part_name
        IN  /\ mountpoint =
                  IF path \in DOMAIN mounts_tbl.val THEN Some(mounts_tbl.val[path])
                  ELSE IF path \in swaps_set.val THEN Some("[SWAP]")
                  ELSE Some("")
            /\ path \in DOMAIN mounts_tbl.val => mountpoint # Some("[SWAP]")

C5_Witness ==
    /\ pc = "mountpoint_done"
    /\ swaps_set.tag = "Some"
    /\ "/dev/sda1" \in DOMAIN mounts_tbl.val
    /\ "/dev/sda1" \in swaps_set.val
    /\ part_name = "sda1"
    /\ mountpoint = Some("/mnt")

(***************************************************************************)
(* The scan: main, read_block and read_partitions.  Names are texts of     *)
(* characters.  A directory enumeration yields its entries one at a time;  *)
(* listed records what the enumerations have yielded, in order.            *)
(***************************************************************************)
starts_with(t, prefix) == Len(t) >= Len(prefix) /\ SubSeq(t, 1, Len(prefix)) = prefix

\* load_uevent_metadata, given the state of the file at device.udev_path():
\* None when the open or the read fails (none!).
load_uevent_metadata(f) == IF f.state # "ok" THEN None ELSE parse_uevent_metadata(f.contents)

Partition(name, majmin, removable, size, readonly, meta, mp) ==
    [name |-> name, majmin |-> majmin, removable |-> removable, size |-> size,
     readonly |-> readonly, metadata |-> meta, mountpoint |-> mp]

Block(name, majmin, removable, size, readonly, parts) ==
    [name |-> name, majmin |-> majmin, removable |-> removable, size |-> size,
     readonly |-> readonly, partitions |-> parts, mountpoint |-> ""]

\* Vec::push, and the push that collect() does for every Some(block).
PushFront(v, x) == <<x>> \o v

Push(v, x) == Append(v, x)

MaxEntries == 3

sda == <<"s", "d", "a">>
sdb == <<"s", "d", "b">>
DiskNames == {sda, sdb}
EntryNames(d) == {d \o <<"1">>, d \o <<"2">>, <<"q", "u", "e", "u", "e">>}

DevFiles ==
    { NoFile, BadFile, FileOf(<<"8", ":", "1", "\n">>), FileOf(<<"x", "\n">>),
      FileOf(<<"2", "5", "9", ":", "0", "\n">>) }

\* The other files of one device directory, and the device's udev record.
ScanAttrs ==
    { [removable |-> NoFile, size |-> NoFile, ro |-> NoFile, udev |-> NoFile],
      [removable |-> FileOf(<<"0", "\n">>), size |-> FileOf(<<"8", "\n">>),
       ro |-> FileOf(<<"1", "\n">>), udev |-> FileOf(<<"E:", "ID_TYPE", "=", "disk", "\n">>)],
      [removable |-> FileOf(<<"0", "\n">>), size |-> BadFile,
       ro |-> FileOf(<<"1", "\n">>), udev |-> BadFile] }

ScanMountFiles ==
    { NoFile,
      FileOfLines(<< <<"/", "dev", "/", "sda1", " ", "/", " ", "ext4", " ", "rw">> >>),
      FileOfLines(<< <<"/", "dev", "/", "sda1", " ", "/", "mnt", " ", "ext4", " ", "rw">> >>) }

ScanSwapFiles ==
    { FileOfLines(<<SwapHeader>>),
      FileOfLines(<<SwapHeader, <<"/", "dev", "/", "sda2", " ", "partition">> >>) }

\* The profile of the build; the sizes of the scan stay far below 2^55 sectors.
ScanBuild == "debug"

Running == pc \in {"main", "block_dirs", "entries"}

Init ==
    /\ pc = "main"
    /\ proc_mounts \in ScanMountFiles
    /\ proc_swaps \in ScanSwapFiles
    /\ ScanIdle
    /\ MajMinIdle
    /\ AttrIdle
    /\ UeventIdle
    /\ MountsIdle

\* The environment: the mount table and the swap list change while the scan runs.
ChangeProcMounts ==
    /\ Running
    /\ proc_mounts' \in ScanMountFiles \ {proc_mounts}
    /\ UNCHANGED <<pc, proc_swaps, scanVars>>
    /\ UNCHANGED exceptScan

ChangeProcSwaps ==
    /\ Running
    /\ proc_swaps' \in ScanSwapFiles \ {proc_swaps}
    /\ UNCHANGED <<pc, proc_mounts, scanVars>>
    /\ UNCHANGED exceptScan

\* main: fs::read_dir("/sys/block").unwrap()
ReadDirRoot ==
    /\ pc = "main"
    /\ \E ok \in BOOLEAN : pc' = IF ok THEN "block_dirs" ELSE "panicked"
    /\ UNCHANGED <<procVars, scanVars>>
    /\ UNCHANGED exceptScan

TopNames == {listed[i].name : i \in {k \in 1..Len(listed) : ~listed[k].err}}

\* main: the enumeration yields Err; dir.ok() is None and filter_map drops it.
BlockDirErr ==
    /\ pc = "block_dirs"
    /\ yielded < MaxEntries
    /\ listed' = Append(listed, [err |-> TRUE])
    /\ yielded' = yielded + 1
    /\ UNCHANGED <<pc, procVars, blocks, disk, ps, mount_reads, swap_reads>>
    /\ UNCHANGED exceptScan

\* main: the enumeration yields an entry and read_block runs up to the start
\* of the loop of read_partitions.
ReadBlock ==
    /\ pc = "block_dirs"
    /\ yielded < MaxEntries
    /\ \E name \in DiskNames \ TopNames, dev \in DevFiles, attrs \in ScanAttrs, listing \in BOOLEAN :
         LET majmin == parse_block_file("MajorMinor", dev)
             removable == parse_block_file("u64", attrs.removable)
             size == parse_sector_file(attrs.size, ScanBuild)
             readonly == parse_block_file("u64", attrs.ro)
         IN  /\ listed' = Append(listed, [err |-> FALSE, name |-> name, dev |-> dev,
                                          children |-> <<>>])
             /\ yielded' = yielded + 1
             /\ IF majmin = Panic
                THEN pc' = "panicked" /\ UNCHANGED disk
                ELSE IF majmin.tag = "None"
                THEN pc' = "block_dirs" /\ UNCHANGED disk
                ELSE IF removable = Panic \/ size = Panic \/ readonly = Panic \/ ~listing
                THEN pc' = "panicked" /\ UNCHANGED disk
                ELSE /\ pc' = "entries"
                     /\ disk' = [name |-> name, majmin |-> majmin.val, removable |-> removable,
                                size |-> size, readonly |-> readonly]
    /\ UNCHANGED <<procVars, blocks, ps, mount_reads, swap_reads>>
    /\ UNCHANGED exceptScan

AddChild(c) == [listed EXCEPT ![Len(listed)].children = Append(@, c)]

ChildNames ==
    LET cs == listed[Len(listed)].children
    IN  {cs[i].name : i \in {k \in 1..Len(cs) : ~cs[k].err}}

\* read_partitions: the enumeration yields Err and entry.unwrap() panics.
PartitionEntryErr ==
    /\ pc = "entries"
    /\ yielded < MaxEntries
    /\ listed' = AddChild([err |-> TRUE])
    /\ yielded' = yielded + 1
    /\ pc' = "panicked"
    /\ UNCHANGED <<procVars, blocks, disk, ps, mount_reads, swap_reads>>
    /\ UNCHANGED exceptScan

\* read_partitions: one pass of the loop over an entry whose name does not
\* start with the name of the disk.
SkipEntry ==
    /\ pc = "entries"
    /\ yielded < MaxEntries
    /\ \E entry_name \in EntryNames(disk.name) \ ChildNames :
         /\ ~starts_with(entry_name, disk.name)
         /\ listed' = AddChild([err |-> FALSE, name |-> entry_name, dev |-> Idle])
    /\ yielded' = yielded + 1
    /\ UNCHANGED <<pc, procVars, blocks, disk, ps, mount_reads, swap_reads>>
    /\ UNCHANGED exceptScan

\* read_partitions: one pass of the loop over an entry whose name starts with
\* the name of the disk.
ReadPartition ==
    /\ pc = "entries"
    /\ yielded < MaxEntries
    /\ \E entry_name \in EntryNames(disk.name) \ ChildNames, dev \in DevFiles, attrs \in ScanAttrs :
         LET removable == parse_block_file("u64", attrs.removable)
             majmin == parse_block_file("MajorMinor", dev)
             size == parse_sector_file(attrs.size, ScanBuild)
             readonly == parse_block_file("u64", attrs.ro)
             meta == load_uevent_metadata(attrs.udev)
             mp == read_partition_mountpoint(Concat(entry_name), proc_mounts, proc_swaps)
             mounts == parse_proc_mounts(proc_mounts)
             lookup == removable # Panic /\ majmin # Panic /\ majmin.tag = "Some"
                           /\ size # Panic /\ readonly # Panic
         IN  /\ starts_with(entry_name, disk.name)
             /\ listed' = AddChild([err |-> FALSE, name |-> entry_name, dev |-> dev])
             /\ mount_reads' = IF lookup THEN mount_reads + 1 ELSE mount_reads
             /\ swap_reads' =
                    IF lookup /\ mounts.tag = "Some"
                              /\ ("/dev/" \o Concat(entry_name)) \notin DOMAIN mounts.val
                    THEN swap_reads + 1 ELSE swap_reads
             /\ IF removable = Panic \/ majmin = Panic
                THEN pc' = "panicked" /\ UNCHANGED ps
                ELSE IF majmin.tag = "None"
                THEN UNCHANGED <<pc, ps>>
                ELSE IF size = Panic \/ readonly = Panic \/ mp = Panic
                THEN pc' = "panicked" /\ UNCHANGED ps
                ELSE /\ ps' = Push(ps, Partition(entry_name, majmin.val, removable, size,
                                                 readonly, meta, mp.val))
                     /\ UNCHANGED pc
    /\ yielded' = yielded + 1
    /\ UNCHANGED <<procVars, blocks, disk>>
    /\ UNCHANGED exceptScan

\* read_partitions returns ps, read_block returns Some(Block) and collect()
\* keeps it.
EndPartitions ==
    /\ pc = "entries"
    /\ blocks' = Push(blocks, Block(disk.name, disk.majmin, disk.removable, disk.size,
                                    disk.readonly, ps))
    /\ ps' = <<>>
    /\ disk' = Idle
    /\ pc' = "block_dirs"
    /\ UNCHANGED <<procVars, listed, yielded, mount_reads, swap_reads>>
    /\ UNCHANGED exceptScan

\* main: the enumeration ends and print_blocks(blocks) is called.
PrintBlocks ==
    /\ pc = "block_dirs"
    /\ pc' = "print_blocks"
    /\ UNCHANGED <<procVars, scanVars>>
    /\ UNCHANGED exceptScan

Next ==
    \/ ReadDirRoot
    \/ BlockDirErr
    \/ ReadBlock
    \/ PartitionEntryErr
    \/ SkipEntry
    \/ ReadPartition
    \/ EndPartitions
    \/ PrintBlocks
    \/ ChangeProcMounts
    \/ ChangeProcSwaps

Spec == Init /\ [][Next]_vars

\* The dev attribute is readable and parses: the file opens, reads, and its
\* trimmed contents are <major>:<minor> with both in 0..255.
DevValid(f) ==
    /\ f.state = "ok"
    /\ MatchesMajMin(Trim(f.contents))
    /\ InRange(Trim(f.contents))

IsBlock(e) == ~e.err /\ DevValid(e.dev)

NamesOf(s) == [i \in 1..Len(s) |-> s[i].name]

\* The names of the tree: every Block's name with the names of its partitions.
TreeNames(bs) ==
    [i \in 1..Len(bs) |-> [name |-> bs[i].name, partitions |-> NamesOf(bs[i].partitions)]]

\* The enumeration filtered, in enumeration order.
FilteredNames(ls) ==
    LET tops == SelectSeq(ls, IsBlock)
    IN  [i \in 1..Len(tops) |->
            [name |-> tops[i].name,
             partitions |->
                 NamesOf(SelectSeq(tops[i].children,
                                   LAMBDA c : /\ ~c.err
                                              /\ starts_with(c.name, tops[i].name)
                                              /\ DevValid(c.dev)))]]

C7_CompleteSnapshotOrNothing ==
    pc = "print_blocks" =>
        \A i \in 1..Len(listed) :
            /\ ~listed[i].err
            /\ \A k \in 1..Len(listed[i].children) : ~listed[i].children[k].err

\* C9: /proc/mounts and /proc/swaps are each read at most once during a run.
C9_SourcesReadOnce == mount_reads <= 1 /\ swap_reads <= 1

====
